---- MODULE Spec2Model ----
(***************************************************************************)
(* Model of the memory server's tool dispatcher (src/src/index.ts): the    *)
(* CallToolRequestSchema handler with its five tools, and the `memories`   *)
(* table it reaches through the supabase client.                           *)
(*                                                                         *)
(* JavaScript strings are sequences of one-character strings, so that the  *)
(* case-insensitive pattern match of list_memories and the property-key    *)
(* order of list_tags are computed, not assumed.  `undefined` and `null`   *)
(* are the two values Undefined and Null below; neither is a string,       *)
(* because their one element is not a single character.                    *)
(***************************************************************************)
EXTENDS Integers, Sequences, FiniteSets, TLC

Undefined == <<"undefined">>
Null == <<"null">>

\* JavaScript truthiness of a value that is a string, undefined or null.
Truthy(v) == v \notin {Undefined, Null, <<>>}

\* `v || null`
OrNull(v) == IF Truthy(v) THEN v ELSE Null

(***************************************************************************)
(* Bounds and input domains                                                *)
(***************************************************************************)
\* Successful writes the store timestamps, per specification.
MaxWrites == 2
MaxLongWrites == 3
MaxEdgeWrites == 2

U_u == <<"u">>
U_v == <<"v">>
K_a == <<"a">>
K_B == <<"B">>
C_Ab == <<"A", "b">>
C_c == <<"c">>

T_w == <<"w">>
T_2 == <<"2">>
T_10 == <<"1", "0">>
T_constructor == <<"c", "o", "n", "s", "t", "r", "u", "c", "t", "o", "r">>
T_toString == <<"t", "o", "S", "t", "r", "i", "n", "g">>
T_valueOf == <<"v", "a", "l", "u", "e", "O", "f">>
T_proto == <<"_", "_", "p", "r", "o", "t", "o", "_", "_">>

\* The metadata object {"src": "chat", "n": "1"}, as its key/value pairs.
M_obj == <<<<<<"s", "r", "c">>, <<"c", "h", "a", "t">>>>, <<<<"n">>, <<"1">>>>>>

Users == {U_u, U_v}
Keys == {K_a, K_B}

\* Failures the store may report on any call (error.code, error.message).
Timeout == [code |-> "57014", message |-> "timeout"]
Denied == [code |-> "42501", message |-> "denied"]
NoError == [code |-> "", message |-> ""]
NoRows == [code |-> "PGRST116", message |-> "no rows"]

\* The inputs of a specification: the (user_id, key) pairs, contents, tags and
\* metadata of create_memory, the tag and search filters of list_memories, the
\* tool names, the failures of the store, and the bound on writes.
MainInputs ==
    [pairs |-> {<<U_u, K_a>>, <<U_u, K_B>>, <<U_v, K_a>>},
     contents |-> {C_Ab, C_c},
     tags |-> {Undefined, T_w},
     metadatas |-> {Undefined},
     filters |-> {Undefined, T_w},
     searches |-> {Undefined},
     names |-> {"create_memory", "get_memory", "list_memories", "forget_memory",
                "list_tags", "delete_all"},
     failures |-> {Timeout, Denied},
     writes |-> MaxWrites]

LongInputs ==
    [MainInputs EXCEPT !.contents = {C_c}, !.searches = {Undefined, <<"b">>},
                       !.failures = {Timeout}, !.writes = MaxLongWrites]

EdgeInputs ==
    [MainInputs EXCEPT !.pairs = {<<U_u, K_a>>, <<U_u, K_B>>},
                       !.contents = {C_Ab},
                       !.tags = {Undefined, <<>>, T_w, T_2, T_10, T_constructor},
                       !.metadatas = {Undefined, M_obj},
                       !.filters = {Undefined, T_w},
                       !.searches = {Undefined, <<>>, <<"b">>, <<"_">>},
                       !.failures = {Timeout},
                       !.writes = MaxEdgeWrites]

VARIABLES rows, clock, req, calls, data, error, resp, lastWrite, recent

vars == <<rows, clock, req, calls, data, error, resp, lastWrite, recent>>

(***************************************************************************)
(* The record store: the table `memories`                                  *)
(***************************************************************************)
Matching(tbl, u, k) == {r \in tbl : r.user_id = u /\ r.memory_key = k}

\* Timestamp the store gives the row an upsert replaces.  The table's
\* definition is not in the source tree; the design document (section 3) says
\* an upsert replaces updated_at in place, and that the store assigns both
\* timestamps.
UpdatedAtOnReplace(old, now) == now

\* StoreUpsert without its conflict target: every upsert inserts a row.
StoreUpsertInsertOnly(tbl, now, u, k, c, t, m) ==
    tbl \cup {[user_id |-> u, memory_key |-> k, content |-> c, tag |-> t,
               metadata |-> m, created_at |-> now, updated_at |-> now]}

\* upsert(row, {onConflict: 'user_id,memory_key'})
StoreUpsert(tbl, now, u, k, c, t, m) ==
    LET hit == Matching(tbl, u, k)
        fresh == [user_id |-> u, memory_key |-> k, content |-> c, tag |-> t,
                  metadata |-> m, created_at |-> now, updated_at |-> now]
    IN  IF hit = {}
        THEN tbl \cup {fresh}
        ELSE (tbl \ hit) \cup
             {[r EXCEPT !.content = c, !.tag = t, !.metadata = m,
                        !.updated_at = UpdatedAtOnReplace(r, now)] : r \in hit}

\* StoreDelete without the user_id filter.
StoreDeleteByKeyOnly(tbl, u, k) == {r \in tbl : r.memory_key # k}

\* delete().eq('user_id', u).eq('memory_key', k)
StoreDelete(tbl, u, k) == tbl \ Matching(tbl, u, k)

\* select('*').eq('user_id', u).eq('memory_key', k).single(): the one matching
\* row, or no data and the error PGRST116 when the match is not exactly one row.
\* `data` is modelled as a sequence; the empty sequence stands for null here.
StoreSingle(tbl, u, k) ==
    LET hit == Matching(tbl, u, k)
    IN  IF Cardinality(hit) = 1
        THEN [data |-> <<CHOOSE r \in hit : TRUE>>, error |-> NoError]
        ELSE [data |-> <<>>, error |-> NoRows]

\* order('updated_at', {ascending: false}) over a set of rows.
RECURSIVE OrderByUpdatedAtDesc(_)
OrderByUpdatedAtDesc(S) ==
    IF S = {} THEN <<>>
    ELSE LET top == CHOOSE r \in S : \A q \in S : q.updated_at <= r.updated_at
         IN  <<top>> \o OrderByUpdatedAtDesc(S \ {top})

(***************************************************************************)
(* ilike: case-insensitive LIKE, `%` any run of characters, `_` any one    *)
(***************************************************************************)
UpperLetters == <<"A", "B", "C", "D", "E", "F", "G", "H", "I", "J", "K", "L", "M",
                  "N", "O", "P", "Q", "R", "S", "T", "U", "V", "W", "X", "Y", "Z">>
LowerLetters == <<"a", "b", "c", "d", "e", "f", "g", "h", "i", "j", "k", "l", "m",
                  "n", "o", "p", "q", "r", "s", "t", "u", "v", "w", "x", "y", "z">>

LowerChar(ch) ==
    IF \E i \in DOMAIN UpperLetters : UpperLetters[i] = ch
    THEN LowerLetters[CHOOSE i \in DOMAIN UpperLetters : UpperLetters[i] = ch]
    ELSE ch

RECURSIVE LikeMatch(_, _)
LikeMatch(pat, str) ==
    IF pat = <<>> THEN str = <<>>
    ELSE IF Head(pat) = "%"
         THEN LikeMatch(Tail(pat), str)
              \/ (str # <<>> /\ LikeMatch(pat, Tail(str)))
    ELSE IF Head(pat) = "_"
         THEN str # <<>> /\ LikeMatch(Tail(pat), Tail(str))
    ELSE str # <<>> /\ LowerChar(Head(pat)) = LowerChar(Head(str))
         /\ LikeMatch(Tail(pat), Tail(str))

\* or(`memory_key.ilike.%${search}%,content.ilike.%${search}%`)
SearchFilter(r, search) ==
    LET pat == <<"%">> \o search \o <<"%">>
    IN  LikeMatch(pat, r.memory_key) \/ LikeMatch(pat, r.content)

\* ListQueryRows without the user_id filter.
ListQueryRowsAnyUser(tbl, u, tag, search) ==
    {r \in tbl : /\ (Truthy(tag) => r.tag = tag)
                 /\ (Truthy(search) => SearchFilter(r, search))}

\* The rows the list_memories query selects, before projection and ordering.
ListQueryRows(tbl, u, tag, search) ==
    {r \in tbl : /\ r.user_id = u
                 /\ (Truthy(tag) => r.tag = tag)
                 /\ (Truthy(search) => SearchFilter(r, search))}

\* select('memory_key, content, tag, created_at, updated_at')
ListProjection(r) ==
    [memory_key |-> r.memory_key, content |-> r.content, tag |-> r.tag,
     created_at |-> r.created_at, updated_at |-> r.updated_at]

\* ListOrder with {ascending: true}.
RECURSIVE ListOrderAscending(_)
ListOrderAscending(S) ==
    IF S = {} THEN <<>>
    ELSE LET low == CHOOSE r \in S : \A q \in S : r.updated_at <= q.updated_at
         IN  <<low>> \o ListOrderAscending(S \ {low})

\* Direction of the list_memories ordering.
ListOrder(S) == OrderByUpdatedAtDesc(S)

StoreList(tbl, u, tag, search) ==
    LET ordered == ListOrder(ListQueryRows(tbl, u, tag, search))
    IN  [i \in DOMAIN ordered |-> ListProjection(ordered[i])]

\* select('tag').eq('user_id', u).not('tag', 'is', null): the rows the
\* list_tags query selects.  The query has no order clause.
TagQueryRows(tbl, u) == {r \in tbl : r.user_id = u /\ r.tag # Null}

\* Every order in which the store may return a set of rows.
Orderings(S) ==
    {s \in [1 .. Cardinality(S) -> S] :
        \A i, j \in 1 .. Cardinality(S) : i # j => s[i] # s[j]}

(***************************************************************************)
(* list_tags: the tagCounts object of the reduce, and Object.entries       *)
(*                                                                         *)
(* An object is the sequence of its own properties in creation order.  A   *)
(* JavaScript value is [type, n]: the number n; or a string, which here is *)
(* always the text of an inherited member followed by n characters "1".    *)
(***************************************************************************)
Num(n) == [type |-> "number", n |-> n]
JsUndefined == [type |-> "undefined", n |-> 0]

\* Members `{}` inherits from Object.prototype, among the tags of the model.
ObjectPrototypeKeys == {T_constructor, T_toString, T_valueOf, T_proto}

HasOwn(acc, key) == \E i \in DOMAIN acc : acc[i].key = key

\* acc[tag]
GetProperty(acc, key) ==
    IF HasOwn(acc, key)
    THEN acc[CHOOSE i \in DOMAIN acc : acc[i].key = key].value
    ELSE IF key = T_proto THEN [type |-> "object", n |-> 0]
    ELSE IF key \in ObjectPrototypeKeys THEN [type |-> "function", n |-> 0]
    ELSE JsUndefined

\* (v || 0) + 1
OrZeroPlusOne(v) ==
    IF v.type = "number" THEN Num(v.n + 1)
    ELSE IF v.type = "undefined" THEN Num(1)
    ELSE [type |-> "string", n |-> v.n + 1]

\* acc[tag] = v.  The __proto__ setter ignores a value that is no object.
SetProperty(acc, key, v) ==
    IF HasOwn(acc, key)
    THEN [i \in DOMAIN acc |-> IF acc[i].key = key
                               THEN [key |-> key, value |-> v] ELSE acc[i]]
    ELSE IF key = T_proto /\ v.type # "object" THEN acc
    ELSE Append(acc, [key |-> key, value |-> v])

\* data.reduce((acc, row) => { acc[row.tag] = (acc[row.tag] || 0) + 1 }, {})
RECURSIVE TagCountsFrom(_, _)
TagCountsFrom(acc, rs) ==
    IF rs = <<>> THEN acc
    ELSE TagCountsFrom(
             SetProperty(acc, Head(rs).tag,
                         OrZeroPlusOne(GetProperty(acc, Head(rs).tag))),
             Tail(rs))

TagCounts(rs) == TagCountsFrom(<<>>, rs)

Digits == <<"0", "1", "2", "3", "4", "5", "6", "7", "8", "9">>
IsDigit(ch) == \E i \in DOMAIN Digits : Digits[i] = ch
DigitValue(ch) == (CHOOSE i \in DOMAIN Digits : Digits[i] = ch) - 1

\* 2^32 - 2, the largest array index, in decimal.
MaxArrayIndexText == <<"4", "2", "9", "4", "9", "6", "7", "2", "9", "4">>

\* a <= b for digit strings of one length.
RECURSIVE DigitsLeq(_, _)
DigitsLeq(a, b) ==
    IF a = <<>> THEN TRUE
    ELSE IF DigitValue(Head(a)) # DigitValue(Head(b))
         THEN DigitValue(Head(a)) < DigitValue(Head(b))
    ELSE DigitsLeq(Tail(a), Tail(b))

\* Numeric order of two canonical decimal strings.
IndexLeq(a, b) == Len(a) < Len(b) \/ (Len(a) = Len(b) /\ DigitsLeq(a, b))

\* An array index: the canonical decimal form of an integer in 0 .. 2^32 - 2.
IsArrayIndex(key) ==
    /\ key # <<>>
    /\ \A i \in DOMAIN key : IsDigit(key[i])
    /\ (Len(key) > 1 => key[1] # "0")
    /\ Len(key) <= Len(MaxArrayIndexText)
    /\ (Len(key) = Len(MaxArrayIndexText) => DigitsLeq(key, MaxArrayIndexText))

\* Object.entries(obj): array-index keys in ascending numeric order, then the
\* other keys in creation order.
RECURSIVE AscendingIndexEntries(_)
AscendingIndexEntries(S) ==
    IF S = {} THEN <<>>
    ELSE LET low == CHOOSE e \in S :
                        \A f \in S : IndexLeq(e.key, f.key)
         IN  <<low>> \o AscendingIndexEntries(S \ {low})

ObjectEntries(obj) ==
    LET indexed == {obj[i] : i \in {j \in DOMAIN obj : IsArrayIndex(obj[j].key)}}
    IN  AscendingIndexEntries(indexed)
        \o SelectSeq(obj, LAMBDA e : ~IsArrayIndex(e.key))

\* Object.entries(tagCounts).map(([tag, count]) => ({tag, count}))
TagEntries(rs) ==
    LET es == ObjectEntries(TagCounts(rs))
    IN  [i \in DOMAIN es |-> [tag |-> es[i].key, count |-> es[i].value]]

(***************************************************************************)
(* The dispatcher: response envelopes and the try / catch boundary         *)
(***************************************************************************)
CatalogNames == {"create_memory", "get_memory", "list_memories",
                 "forget_memory", "list_tags"}

\* { content: [{ type: 'text', text: JSON.stringify(payload) }] }
Envelope(payload) == [content |-> <<[type |-> "text", text |-> payload]>>]

\* The envelope the catch block builds from error.message.
ErrorEnvelope(message) ==
    [content |-> <<[type |-> "text",
                    text |-> [error |-> message, status |-> "error"]]>>,
     isError |-> TRUE]

Return(envelope) == [thrown |-> FALSE, value |-> envelope]
Throw(message) == [thrown |-> TRUE, message |-> message]

\* throw new Error(`Database error: ${error.message}`)
DatabaseError(err) == Throw(<<"Database error: ", err.message>>)

\* Catch building its envelope without isError.
CatchDropsFlag(outcome) ==
    IF outcome.thrown
    THEN [content |-> <<[type |-> "text",
                         text |-> [error |-> outcome.message, status |-> "error"]]>>]
    ELSE outcome.value

\* try { ... } catch (error) { return { ..., isError: true } }
Catch(outcome) ==
    IF outcome.thrown THEN ErrorEnvelope(outcome.message) ELSE outcome.value

\* What each case of the switch does with the store's reply {data, error}.
CreateResult(key, reply) ==
    IF reply.error # NoError THEN DatabaseError(reply.error)
    ELSE Return(Envelope([status |-> "success",
                          message |-> <<"Memory '", key, "' saved successfully">>,
                          key |-> key]))

\* GetResult without the exemption of PGRST116.
GetResultThrowsOnNoRows(key, reply) ==
    IF reply.error # NoError THEN DatabaseError(reply.error)
    ELSE Return(Envelope([status |-> "not_found",
                          message |-> <<"No memory found with key '", key, "'">>]))

GetResult(key, reply) ==
    IF reply.error # NoError /\ reply.error.code # "PGRST116"
    THEN DatabaseError(reply.error)
    ELSE IF reply.data = <<>>
    THEN Return(Envelope([status |-> "not_found",
                          message |-> <<"No memory found with key '", key, "'">>]))
    ELSE LET d == reply.data[1]
         IN  Return(Envelope([key |-> d.memory_key, content |-> d.content,
                              tag |-> d.tag, metadata |-> d.metadata,
                              created_at |-> d.created_at,
                              updated_at |-> d.updated_at]))

ListResult(reply) ==
    IF reply.error # NoError THEN DatabaseError(reply.error)
    ELSE Return(Envelope([count |-> Len(reply.data), memories |-> reply.data]))

ForgetResult(key, reply) ==
    IF reply.error # NoError THEN DatabaseError(reply.error)
    ELSE Return(Envelope([status |-> "success",
                          message |-> <<"Memory '", key, "' deleted successfully">>,
                          key |-> key]))

TagsResult(reply) ==
    IF reply.error # NoError THEN DatabaseError(reply.error)
    ELSE Return(Envelope([tags |-> TagEntries(reply.data)]))

Failed(f) == [data |-> <<>>, error |-> f]

(***************************************************************************)
(* State                                                                   *)
(*   rows, clock   the table and the store's timestamp source              *)
(*   req           the request being answered                              *)
(*   calls         store calls made for it                                 *)
(*   data, error   the store's reply to it                                 *)
(*   resp          what the handler returned for it                        *)
(*   lastWrite     per (user_id, key): the last successful create_memory   *)
(*                 or forget_memory and the arguments it was given         *)
(*   recent        the last successful write, when it was a create_memory  *)
(***************************************************************************)
NoWrite == [kind |-> "none", content |-> Undefined, tag |-> Undefined]
NoRecent == [kind |-> "none", user_id |-> Undefined, key |-> Undefined]

Init ==
    /\ rows = {}
    /\ clock = 0
    /\ req = [name |-> "", user_id |-> Undefined, key |-> Undefined,
              tag |-> Undefined, search |-> Undefined]
    /\ calls = 0
    /\ data = <<>>
    /\ error = NoError
    /\ resp = [content |-> <<>>]
    /\ lastWrite = [p \in Users \X Keys |-> NoWrite]
    /\ recent = NoRecent

Answer(name, u, k, t, q, reply, outcome) ==
    /\ req' = [name |-> name, user_id |-> u, key |-> k, tag |-> t, search |-> q]
    /\ calls' = 1
    /\ data' = reply.data
    /\ error' = reply.error
    /\ resp' = Catch(outcome)

\* case 'create_memory'.  f is what the store reports for the upsert.
create_memory(u, k, c, t, m, f) ==
    LET ok == f = NoError
        tbl == IF ok THEN StoreUpsert(rows, clock + 1, u, k, c, OrNull(t), OrNull(m))
               ELSE rows
        reply == IF ok
                 THEN [data |-> OrderByUpdatedAtDesc(Matching(tbl, u, k)),
                       error |-> NoError]
                 ELSE Failed(f)
    IN  /\ rows' = tbl
        /\ clock' = IF ok THEN clock + 1 ELSE clock
        /\ Answer("create_memory", u, k, Undefined, Undefined, reply,
                  CreateResult(k, reply))
        /\ lastWrite' = IF ok
                        THEN [lastWrite EXCEPT ![<<u, k>>] =
                                 [kind |-> "created", content |-> c, tag |-> t]]
                        ELSE lastWrite
        /\ recent' = IF ok
                     THEN [kind |-> IF Matching(rows, u, k) = {}
                                    THEN "created" ELSE "replaced",
                           user_id |-> u, key |-> k]
                     ELSE recent

\* case 'get_memory'
get_memory(u, k, f) ==
    LET reply == IF f = NoError THEN StoreSingle(rows, u, k) ELSE Failed(f)
    IN  /\ Answer("get_memory", u, k, Undefined, Undefined, reply,
                  GetResult(k, reply))
        /\ UNCHANGED <<rows, clock, lastWrite, recent>>

\* case 'list_memories'
list_memories(u, t, q, f) ==
    LET reply == IF f = NoError
                 THEN [data |-> StoreList(rows, u, t, q), error |-> NoError]
                 ELSE Failed(f)
    IN  /\ Answer("list_memories", u, Undefined, t, q, reply, ListResult(reply))
        /\ UNCHANGED <<rows, clock, lastWrite, recent>>

\* case 'forget_memory'
forget_memory(u, k, f) ==
    LET ok == f = NoError
        reply == IF ok THEN [data |-> <<>>, error |-> NoError] ELSE Failed(f)
    IN  /\ rows' = IF ok THEN StoreDelete(rows, u, k) ELSE rows
        /\ Answer("forget_memory", u, k, Undefined, Undefined, reply,
                  ForgetResult(k, reply))
        /\ lastWrite' = IF ok
                        THEN [lastWrite EXCEPT ![<<u, k>>] =
                                 [kind |-> "forgotten", content |-> Undefined,
                                  tag |-> Undefined]]
                        ELSE lastWrite
        /\ recent' = IF ok THEN NoRecent ELSE recent
        /\ UNCHANGED clock

\* case 'list_tags'.  The store returns the selected rows in any order.
list_tags(u, f) ==
    \E o \in Orderings(TagQueryRows(rows, u)) :
        LET reply == IF f = NoError
                     THEN [data |-> [i \in DOMAIN o |-> [tag |-> o[i].tag]],
                           error |-> NoError]
                     ELSE Failed(f)
        IN  /\ Answer("list_tags", u, Undefined, Undefined, Undefined, reply,
                      TagsResult(reply))
            /\ UNCHANGED <<rows, clock, lastWrite, recent>>

\* default: throw new Error(`Unknown tool: ${name}`)
unknown_tool(name, u) ==
    /\ req' = [name |-> name, user_id |-> u, key |-> Undefined,
               tag |-> Undefined, search |-> Undefined]
    /\ calls' = 0
    /\ data' = <<>>
    /\ error' = NoError
    /\ resp' = Catch(Throw(<<"Unknown tool: ", name>>))
    /\ UNCHANGED <<rows, clock, lastWrite, recent>>

UsersOf(D) == {p[1] : p \in D.pairs}

\* One request: the switch on the tool name, over the inputs D.
CallTool(D) ==
    \E name \in D.names :
        \/ /\ name = "create_memory"
           /\ clock < D.writes
           /\ \E p \in D.pairs, c \in D.contents, t \in D.tags, m \in D.metadatas,
                 f \in D.failures \cup {NoError} :
                  create_memory(p[1], p[2], c, t, m, f)
        \/ /\ name = "get_memory"
           /\ \E p \in D.pairs, f \in D.failures \cup {NoError} :
                  get_memory(p[1], p[2], f)
        \/ /\ name = "list_memories"
           /\ \E u \in UsersOf(D), t \in D.filters, q \in D.searches,
                 f \in D.failures \cup {NoError} :
                  list_memories(u, t, q, f)
        \/ /\ name = "forget_memory"
           /\ \E p \in D.pairs, f \in D.failures \cup {NoError} :
                  forget_memory(p[1], p[2], f)
        \/ /\ name = "list_tags"
           /\ \E u \in UsersOf(D), f \in D.failures \cup {NoError} : list_tags(u, f)
        \/ /\ name \notin CatalogNames
           /\ \E u \in UsersOf(D) : unknown_tool(name, u)

Next == CallTool(MainInputs)
NextLong == CallTool(LongInputs)
NextEdge == CallTool(EdgeInputs)

Spec == Init /\ [][Next]_vars
SpecLong == Init /\ [][NextLong]_vars
SpecEdge == Init /\ [][NextEdge]_vars

(***************************************************************************)
(* Properties                                                              *)
(***************************************************************************)
Payload == resp.content[1].text
IsError == "isError" \in DOMAIN resp
Pair == <<req.user_id, req.key>>

\* The store reported a failure other than `no matching row`.
StoreFailed == error # NoError /\ error.code # "PGRST116"

\* The last request was the tool `name` and the store answered it.
Served(name) == req.name = name /\ calls = 1 /\ ~StoreFailed

\* s contains t, ignoring case.
ContainsIgnoringCase(s, t) ==
    \E i \in 0 .. Len(s) - Len(t) :
        \A j \in 1 .. Len(t) : LowerChar(s[i + j]) = LowerChar(t[j])

\* The distinct elements of a sequence, in order of first occurrence.
RECURSIVE FirstOccurrences(_)
FirstOccurrences(q) ==
    IF q = <<>> THEN <<>>
    ELSE LET front == FirstOccurrences(SubSeq(q, 1, Len(q) - 1))
             last == q[Len(q)]
         IN  IF \E i \in DOMAIN front : front[i] = last THEN front
             ELSE Append(front, last)

OwnRows(tbl, u) == {r \in tbl : r.user_id = u}

\* C1: a get_memory that the store answers, after a successful
\* create_memory(u, k, c, t) with no later create_memory or forget_memory on
\* (u, k), returns a non-error payload with key = k, content = c and tag = t,
\* the tag being null when none was supplied.
C1_CreateThenGet ==
    (Served("get_memory") /\ lastWrite[Pair].kind = "created") =>
        /\ ~IsError
        /\ DOMAIN Payload = {"key", "content", "tag", "metadata",
                             "created_at", "updated_at"}
        /\ Payload.key = req.key
        /\ Payload.content = lastWrite[Pair].content
        /\ Payload.tag = IF lastWrite[Pair].tag = Undefined THEN Null
                         ELSE lastWrite[Pair].tag

\* C2: the store holds at most one record per (user_id, memory_key), and a
\* pair's record carries the content of the last successful create_memory for
\* that pair.
C2_OneRecordPerPair ==
    \A p \in Users \X Keys :
        /\ Cardinality(Matching(rows, p[1], p[2])) <= 1
        /\ \A r \in Matching(rows, p[1], p[2]) :
               /\ lastWrite[p].kind = "created"
               /\ r.content = lastWrite[p].content

\* A record that a second create_memory replaced, alone in the store.
C2_Witness ==
    /\ recent.kind = "replaced"
    /\ \E r \in rows : /\ r.user_id = recent.user_id
                       /\ r.memory_key = recent.key
                       /\ r.updated_at > r.created_at
                       /\ rows = {r}

\* C3: a get_memory that the store answers, after a successful forget_memory
\* on the same pair and before any later create_memory on it, returns the
\* payload status = "not_found" in an envelope without isError.
C3_ForgetThenGet ==
    (Served("get_memory") /\ lastWrite[Pair].kind = "forgotten") =>
        /\ ~IsError
        /\ "status" \in DOMAIN Payload
        /\ Payload.status = "not_found"

\* The not_found answer for a forgotten pair, other records still stored.
C3_Witness ==
    /\ Served("get_memory")
    /\ lastWrite[Pair].kind = "forgotten"
    /\ error = NoRows
    /\ rows # {}
    /\ ~IsError

\* C4: a forget_memory the store accepts returns {status: "success", message,
\* key} without isError whether or not the pair had a record; on a pair with no
\* record it leaves every record unchanged; and a second forget_memory on the
\* pair would leave the store as the first left it.
C4_ForgetIdempotent ==
    [][\A p \in Users \X Keys :
           forget_memory(p[1], p[2], NoError) =>
               /\ resp' = Envelope([status |-> "success",
                                    message |-> <<"Memory '", p[2],
                                                  "' deleted successfully">>,
                                    key |-> p[2]])
               /\ "isError" \notin DOMAIN resp'
               /\ (Matching(rows, p[1], p[2]) = {} => rows' = rows)
               /\ Matching(rows', p[1], p[2]) = {}
               /\ StoreDelete(rows', p[1], p[2]) = rows']_vars

\* A forget_memory of a pair that had no record, answered with success while
\* the store holds records: every create so far inserted a row that is still
\* there.
C4_Witness ==
    /\ Served("forget_memory")
    /\ ~IsError
    /\ Payload.status = "success"
    /\ rows # {}
    /\ clock = Cardinality(rows)

\* C5: list_memories returns records in descending order of updated_at, and
\* right after a successful create_memory on an existing (u, k) that record is
\* the first element of list_memories(u).
C5_ListOrder ==
    Served("list_memories") =>
        LET ms == Payload.memories
        IN  /\ \A i, j \in DOMAIN ms :
                   i < j => ms[i].updated_at >= ms[j].updated_at
            /\ (/\ recent.kind = "replaced"
                /\ recent.user_id = req.user_id
                /\ req.tag = Undefined
                /\ req.search = Undefined)
               => (ms # <<>> /\ ms[1].memory_key = recent.key)

\* The older of two records, replaced and now listed first.
C5_Witness ==
    /\ Served("list_memories")
    /\ recent.kind = "replaced"
    /\ recent.user_id = req.user_id
    /\ req.tag = Undefined
    /\ req.search = Undefined
    /\ Len(Payload.memories) >= 2
    /\ Payload.memories[1].memory_key = recent.key
    /\ Payload.memories[1].created_at < Payload.memories[2].created_at

\* C6: list_memories(u, tag, search) returns exactly u's records whose tag
\* equals the supplied tag and whose memory_key or content contains the
\* supplied search term, ignoring case; a filter not supplied restricts
\* nothing; count is the number of records returned.
C6_ListFilters ==
    Served("list_memories") =>
        LET ms == Payload.memories
            wanted == {r \in rows :
                          /\ r.user_id = req.user_id
                          /\ (req.tag # Undefined => r.tag = req.tag)
                          /\ (req.search # Undefined =>
                                 \/ ContainsIgnoringCase(r.memory_key, req.search)
                                 \/ ContainsIgnoringCase(r.content, req.search))}
        IN  /\ {ms[i] : i \in DOMAIN ms} = {ListProjection(r) : r \in wanted}
            /\ Len(ms) = Cardinality(wanted)
            /\ Payload.count = Len(ms)

\* C7: list_tags(u) has exactly one entry per distinct non-null tag of u's
\* records, each with the number of u's records bearing that tag.
C7_TagCounts ==
    Served("list_tags") =>
        LET ts == Payload.tags
            tagged == {r \in OwnRows(rows, req.user_id) : r.tag # Null}
        IN  /\ {ts[i].tag : i \in DOMAIN ts} = {r.tag : r \in tagged}
            /\ \A i, j \in DOMAIN ts : ts[i].tag = ts[j].tag => i = j
            /\ \A i \in DOMAIN ts :
                   ts[i].count = Num(Cardinality({r \in tagged : r.tag = ts[i].tag}))

\* C8: the entries of list_tags appear in the order in which each distinct
\* tag first occurs among the rows the store returned.
C8_TagOrder ==
    Served("list_tags") =>
        LET ts == Payload.tags
        IN  [i \in DOMAIN ts |-> ts[i].tag]
                = FirstOccurrences([i \in DOMAIN data |-> data[i].tag])

\* C9: every request is answered with an envelope; isError is set exactly
\* when the store reported a failure other than get_memory's missing row, or
\* the name is not in the catalog; a store failure yields "Database error: "
\* and its detail, an unknown name "Unknown tool: " and the name, with no call
\* to the store.
C9_Envelope ==
    req.name # "" =>
        /\ DOMAIN resp \in {{"content"}, {"content", "isError"}}
        /\ Len(resp.content) = 1
        /\ resp.content[1].type = "text"
        /\ IsError <=> (req.name \notin CatalogNames
                        \/ (error # NoError
                            /\ ~(req.name = "get_memory" /\ error.code = "PGRST116")))
        /\ IsError => resp.isError = TRUE
        /\ (req.name \in CatalogNames /\ IsError) =>
               /\ calls = 1
               /\ Payload = [error |-> <<"Database error: ", error.message>>,
                             status |-> "error"]
        /\ req.name \notin CatalogNames =>
               /\ calls = 0
               /\ Payload = [error |-> <<"Unknown tool: ", req.name>>,
                             status |-> "error"]

\* An error envelope for a store failure, with records in the store.
C9_Witness ==
    /\ req.name \in CatalogNames
    /\ IsError
    /\ error = Denied
    /\ rows # {}

\* C10: a request of user u leaves the records of the other users as they
\* were; get_memory, list_memories and list_tags leave the whole store as it
\* was, and what they return is what they return on u's records alone.
C10_UserIsolation ==
    [][LET u == req'.user_id
           own == OwnRows(rows, u)
       IN  /\ rows' \ OwnRows(rows', u) = rows \ own
           /\ req'.name \in {"get_memory", "list_memories", "list_tags"} =>
                  rows' = rows
           /\ (req'.name = "get_memory" /\ error' \in {NoError, NoRows}) =>
                  resp' = Catch(GetResult(req'.key, StoreSingle(own, u, req'.key)))
           /\ (req'.name = "list_memories" /\ error' = NoError) =>
                  resp' = Catch(ListResult(
                              [data |-> StoreList(own, u, req'.tag, req'.search),
                               error |-> NoError]))
           /\ (req'.name = "list_tags" /\ error' = NoError) =>
                  \E o \in Orderings(TagQueryRows(own, u)) :
                      resp' = Catch(TagsResult(
                                  [data |-> [i \in DOMAIN o |-> [tag |-> o[i].tag]],
                                   error |-> NoError]))]_vars

\* A list of one user's records while another user has records too.
C10_Witness ==
    /\ Served("list_memories")
    /\ Payload.memories # <<>>
    /\ \E r \in rows : r.user_id # req.user_id
    /\ \E r \in rows : r.user_id = req.user_id

====
